---- MODULE Spec2Model ----
(***************************************************************************)
(* The handshake manager of src/core/lib/channel/handshaker.c: an ordered  *)
(* list of handshakers run one after the other under one deadline timer,   *)
(* with a reference-counted manager and one terminal callback.             *)
(*                                                                         *)
(* One manager is modelled.  Handshakers are named by their position in    *)
(* mgr->handshakers (0-based, as in the code).  The handshaker             *)
(* implementations, the timer and the closure scheduler are collaborators  *)
(* outside the file; they are modelled by their contracts.                 *)
(***************************************************************************)
EXTENDS Integers, Sequences, FiniteSets, TLC

\* ------------------------------------------------------------------ bounds
\* Largest number of handshakers grpc_handshake_manager_add registers.
MaxHandshakers == 2
\* Largest number of external grpc_handshake_manager_shutdown calls.
MaxShutdowns == 1

\* ----------------------------------------------------------------- values
\* GRPC_ERROR_NONE
NONE == "none"
\* The error a cancelled timer hands to its callback (GRPC_ERROR_CANCELLED).
CANCELLED == "cancelled"
\* Errors a handshaker may report to its completion closure.
Errors == {"E1", "E2"}
\* Endpoints a handshaker may leave in args->endpoint: the one passed to
\* do_handshake, or one wrapping it.
Endpoints == {"caller", "wrapped"}
\* Positions of mgr->handshakers.
Slots == 0 .. (MaxHandshakers - 1)

VARIABLES
  count,        \* mgr->count
  index,        \* mgr->index
  refs,         \* mgr->refs
  mu,           \* mgr->mu: "free", or "chain" while call_next_handshaker holds it
  hsState,      \* per handshaker: "idle", "running", "aborting", "pending", "done"
  hsErr,        \* per handshaker: the error it handed to its completion closure
  hsShut,       \* per handshaker: number of vtable->shutdown calls received
  started,      \* sequence of handshaker positions, in the order do_handshake was called on them
  timer,        \* mgr->deadline_timer: "unarmed", "armed", "fired", "cancelled", "unref", "done"
  firedEarly,   \* the timer fired before the terminal branch was taken
  caller,       \* "holds" until the caller calls destroy(), then "released"
  called,       \* grpc_handshake_manager_do_handshake has been called
  aborted,      \* who shut down a handshaker while it was running: "no", "timer", "caller"
  termSched,    \* number of times on_handshake_done was scheduled
  termErr,      \* the error on_handshake_done was last scheduled with
  termRan,      \* number of times on_handshake_done ran
  userData,     \* args->user_data: "unset", "mgr", "caller"
  freed,        \* number of times the manager was freed (gpr_free(mgr))
  destroyed,    \* sequence of handshaker positions, in the order vtable->destroy was called
  nShutdown,    \* number of external shutdown() calls made
  lateShutdown, \* number of shutdown broadcasts made after on_handshake_done was scheduled
  shutAt,       \* value of index at the first shutdown made while the chain was running (-1: none)
  uaf,          \* uses of the manager after it was freed: subset of {"unlock", "terminal"}
  crashed,      \* a use after free or a failed GPR_ASSERT brought the process down
  argsEndpoint, \* args->endpoint: "unset", "caller" (the one passed in), "wrapped"
  timerShut,    \* number of manager shutdowns made by on_timeout
  timerUnrefs,  \* number of references released by on_timeout
  reuse         \* a second do_handshake call: "none", "passed" or "failed" its GPR_ASSERT

vars == <<count, index, refs, mu, hsState, hsErr, hsShut, started, timer,
          firedEarly, caller, called, aborted, termSched, termErr, termRan,
          userData, freed, destroyed, nShutdown, lateShutdown, shutAt, uaf,
          crashed, argsEndpoint, timerShut, timerUnrefs, reuse>>

\* grpc_handshake_manager_create: zeroed manager, one reference (the caller's).
Init ==
  /\ count = 0
  /\ index = 0
  /\ refs = 1
  /\ mu = "free"
  /\ hsState = [i \in Slots |-> "idle"]
  /\ hsErr = [i \in Slots |-> NONE]
  /\ hsShut = [i \in Slots |-> 0]
  /\ started = <<>>
  /\ timer = "unarmed"
  /\ firedEarly = FALSE
  /\ caller = "holds"
  /\ called = FALSE
  /\ aborted = "no"
  /\ termSched = 0
  /\ termErr = NONE
  /\ termRan = 0
  /\ userData = "unset"
  /\ freed = 0
  /\ destroyed = <<>>
  /\ nShutdown = 0
  /\ lateShutdown = 0
  /\ shutAt = -1
  /\ uaf = {}
  /\ crashed = FALSE
  /\ argsEndpoint = "unset"
  /\ timerShut = 0
  /\ timerUnrefs = 0
  /\ reuse = "none"

\* ------------------------------------------------------------ collaborators
\* grpc_timer_init: arms the timer; a deadline that has already passed makes
\* the timer fire at once (its callback is scheduled with no error).
grpc_timer_init(expired) == IF expired THEN "fired" ELSE "armed"

\* grpc_timer_cancel: a timer that is still armed is cancelled (its callback is
\* scheduled with GRPC_ERROR_CANCELLED); one that already fired is left alone.
grpc_timer_cancel(t) == IF t = "armed" THEN "cancelled" ELSE t

\* The error the timer hands to on_timeout.
TimerError(t) == IF t = "fired" THEN NONE ELSE CANCELLED

\* ----------------------------------------------------------------- helpers
\* gpr_ref / gpr_unref on a counter value.
gpr_ref(r) == r + 1
gpr_unref(r) == r - 1

\* grpc_handshake_manager_unref whose destroy loop starts at position 1.
grpc_handshake_manager_unref_skips_first(r) ==
  /\ refs' = gpr_unref(r)
  /\ IF gpr_unref(r) = 0
       THEN /\ destroyed' = destroyed \o [k \in 1 .. (count - 1) |-> k]
            /\ freed' = freed + 1
       ELSE UNCHANGED <<destroyed, freed>>

\* grpc_handshake_manager_unref on a manager whose counter is r: drop one
\* reference; at zero destroy every handshaker in index order and free.
grpc_handshake_manager_unref(r) ==
  /\ refs' = gpr_unref(r)
  /\ IF gpr_unref(r) = 0
       THEN /\ destroyed' = destroyed \o [k \in 1 .. count |-> k - 1]
            /\ freed' = freed + 1
       ELSE UNCHANGED <<destroyed, freed>>

\* IsTerminal that looks at the error alone: the end of the list is not noticed.
IsTerminal_no_end_test(error) == error # NONE

\* IsTerminal that ignores the error: only the end of the list ends the chain.
IsTerminal_no_error_test(error) == index = count

\* The test of call_next_handshaker_locked: error present, or no handshaker left.
IsTerminal(error) == error # NONE \/ index = count

\* NextHandshaker counting from the end of the array.
NextHandshaker_reversed == count - 1 - index

\* mgr->handshakers[mgr->index]: the handshaker the advance step starts.
NextHandshaker == index

\* GRPC_ERROR_REF that loses the error.
GRPC_ERROR_REF_dropped(error) == NONE

\* GRPC_ERROR_REF(error): the error handed on to on_handshake_done.
GRPC_ERROR_REF(error) == error

\* call_next_handshaker_locked without the ++mgr->index after the start.
call_next_handshaker_locked_no_increment(error, r, t, hs, ud) ==
  /\ index <= count
  /\ IF IsTerminal(error)
       THEN /\ timer' = grpc_timer_cancel(t)
            /\ userData' = "caller"
            /\ termSched' = termSched + 1
            /\ termErr' = GRPC_ERROR_REF(error)
            /\ grpc_handshake_manager_unref(r)
            /\ hsState' = hs
            /\ UNCHANGED <<index, started>>
       ELSE /\ hsState' = [hs EXCEPT ![NextHandshaker] = "running"]
            /\ started' = Append(started, NextHandshaker)
            /\ index' = index
            /\ timer' = t
            /\ refs' = r
            /\ userData' = ud
            /\ UNCHANGED <<termSched, termErr, destroyed, freed>>

\* call_next_handshaker_locked that, on starting the last handshaker, takes the
\* terminal steps at once instead of waiting to be chained back to.
call_next_handshaker_locked_early_done(error, r, t, hs, ud) ==
  /\ index <= count
  /\ IF IsTerminal(error)
       THEN /\ timer' = grpc_timer_cancel(t)
            /\ userData' = "caller"
            /\ termSched' = termSched + 1
            /\ termErr' = GRPC_ERROR_REF(error)
            /\ grpc_handshake_manager_unref(r)
            /\ hsState' = hs
            /\ UNCHANGED <<index, started>>
       ELSE /\ hsState' = [hs EXCEPT ![NextHandshaker] = "running"]
            /\ started' = Append(started, NextHandshaker)
            /\ index' = index + 1
            /\ IF index + 1 = count
                 THEN /\ timer' = grpc_timer_cancel(t)
                      /\ userData' = "caller"
                      /\ termSched' = termSched + 1
                      /\ termErr' = GRPC_ERROR_REF(error)
                      /\ grpc_handshake_manager_unref(r)
                 ELSE /\ timer' = t
                      /\ refs' = r
                      /\ userData' = ud
                      /\ UNCHANGED <<termSched, termErr, destroyed, freed>>

\* call_next_handshaker_locked whose terminal branch leaves the timer alone.
call_next_handshaker_locked_no_cancel(error, r, t, hs, ud) ==
  /\ index <= count
  /\ IF IsTerminal(error)
       THEN /\ timer' = t
            /\ userData' = "caller"
            /\ termSched' = termSched + 1
            /\ termErr' = GRPC_ERROR_REF(error)
            /\ grpc_handshake_manager_unref(r)
            /\ hsState' = hs
            /\ UNCHANGED <<index, started>>
       ELSE /\ hsState' = [hs EXCEPT ![NextHandshaker] = "running"]
            /\ started' = Append(started, NextHandshaker)
            /\ index' = index + 1
            /\ timer' = t
            /\ refs' = r
            /\ userData' = ud
            /\ UNCHANGED <<termSched, termErr, destroyed, freed>>

\* call_next_handshaker_locked whose terminal branch does not put the caller's
\* user_data back into the args.
call_next_handshaker_locked_no_restore(error, r, t, hs, ud) ==
  /\ index <= count
  /\ IF IsTerminal(error)
       THEN /\ timer' = grpc_timer_cancel(t)
            /\ userData' = ud
            /\ termSched' = termSched + 1
            /\ termErr' = GRPC_ERROR_REF(error)
            /\ grpc_handshake_manager_unref(r)
            /\ hsState' = hs
            /\ UNCHANGED <<index, started>>
       ELSE /\ hsState' = [hs EXCEPT ![NextHandshaker] = "running"]
            /\ started' = Append(started, NextHandshaker)
            /\ index' = index + 1
            /\ timer' = t
            /\ refs' = r
            /\ userData' = ud
            /\ UNCHANGED <<termSched, termErr, destroyed, freed>>

\* call_next_handshaker_locked, entered with the mutex held, the counter at r,
\* the timer in state t, the handshakers in state hs and args->user_data ud.
call_next_handshaker_locked(error, r, t, hs, ud) ==
  /\ index <= count
  /\ IF IsTerminal(error)
       THEN /\ timer' = grpc_timer_cancel(t)
            /\ userData' = "caller"
            /\ termSched' = termSched + 1
            /\ termErr' = GRPC_ERROR_REF(error)
            /\ grpc_handshake_manager_unref(r)
            /\ hsState' = hs
            /\ UNCHANGED <<index, started>>
       ELSE /\ hsState' = [hs EXCEPT ![NextHandshaker] = "running"]
            /\ started' = Append(started, NextHandshaker)
            /\ index' = index + 1
            /\ timer' = t
            /\ refs' = r
            /\ userData' = ud
            /\ UNCHANGED <<termSched, termErr, destroyed, freed>>

\* ShutdownAll that shuts down only the handshaker last started.
ShutdownAll_active_only(who) ==
  /\ hsShut' = [i \in Slots |-> IF i = index - 1 THEN hsShut[i] + 1 ELSE hsShut[i]]
  /\ hsState' = [i \in Slots |->
                   IF i = index - 1 /\ hsState[i] = "running" THEN "aborting" ELSE hsState[i]]
  /\ aborted' = IF \E i \in Slots : i = index - 1 /\ hsState[i] = "running"
                  THEN who ELSE aborted
  /\ lateShutdown' = IF termSched > 0 THEN lateShutdown + 1 ELSE lateShutdown

\* The loop of grpc_handshake_manager_shutdown: vtable->shutdown on every
\* registered handshaker.  A handshaker that is running when it is shut down
\* aborts: it will complete with an error.
ShutdownAll(who) ==
  /\ hsShut' = [i \in Slots |-> IF i < count THEN hsShut[i] + 1 ELSE hsShut[i]]
  /\ hsState' = [i \in Slots |->
                   IF i < count /\ hsState[i] = "running" THEN "aborting" ELSE hsState[i]]
  /\ aborted' = IF \E i \in Slots : i < count /\ hsState[i] = "running"
                  THEN who ELSE aborted
  /\ lateShutdown' = IF termSched > 0 THEN lateShutdown + 1 ELSE lateShutdown

\* ----------------------------------------------------------------- actions
\* grpc_handshake_manager_add: append a handshaker under the lock.
grpc_handshake_manager_add ==
  /\ ~crashed /\ caller = "holds" /\ mu = "free"
  /\ count < MaxHandshakers
  /\ count' = count + 1
  /\ UNCHANGED <<index, refs, mu, hsState, hsErr, hsShut, started, timer,
                 firedEarly, caller, called, aborted, termSched, termErr,
                 termRan, userData, freed, destroyed, nShutdown, lateShutdown,
                 shutAt, uaf, crashed, argsEndpoint, timerShut,
                 timerUnrefs, reuse>>

\* grpc_handshake_manager_destroy: the caller releases its reference.
grpc_handshake_manager_destroy ==
  /\ ~crashed /\ caller = "holds"
  /\ caller' = "released"
  /\ grpc_handshake_manager_unref(refs)
  /\ UNCHANGED <<count, index, mu, hsState, hsErr, hsShut, started, timer,
                 firedEarly, called, aborted, termSched, termErr, termRan,
                 userData, nShutdown, lateShutdown, shutAt, uaf, crashed, argsEndpoint, timerShut,
                 timerUnrefs, reuse>>

\* grpc_handshake_manager_shutdown, called by the caller.
grpc_handshake_manager_shutdown ==
  /\ ~crashed /\ caller = "holds" /\ mu = "free"
  /\ nShutdown < MaxShutdowns
  /\ nShutdown' = nShutdown + 1
  /\ ShutdownAll("caller")
  /\ shutAt' = IF shutAt = -1 /\ called /\ termSched = 0 THEN index ELSE shutAt
  /\ UNCHANGED <<count, index, refs, mu, hsErr, started, timer, firedEarly,
                 caller, called, termSched, termErr, termRan, userData, freed,
                 destroyed, uaf, crashed, argsEndpoint, timerShut,
                 timerUnrefs, reuse>>

\* grpc_handshake_manager_do_handshake without the gpr_ref taken for the timer.
grpc_handshake_manager_do_handshake_no_timer_ref(expired) ==
  /\ ~crashed /\ caller = "holds" /\ mu = "free"
  /\ ~called
  /\ index = 0
  /\ called' = TRUE
  /\ firedEarly' = expired
  /\ argsEndpoint' = "caller"
  /\ call_next_handshaker_locked(NONE, gpr_ref(refs),
                                 grpc_timer_init(expired), hsState, "mgr")
  /\ UNCHANGED <<count, mu, hsErr, hsShut, caller, aborted, termRan,
                 nShutdown, lateShutdown, shutAt, uaf, crashed, timerShut, timerUnrefs,
                 reuse>>

\* grpc_handshake_manager_do_handshake, from the lock to the unlock.
grpc_handshake_manager_do_handshake(expired) ==
  /\ ~crashed /\ caller = "holds" /\ mu = "free"
  /\ ~called
  /\ index = 0
  /\ called' = TRUE
  /\ firedEarly' = expired
  /\ argsEndpoint' = "caller"
  /\ call_next_handshaker_locked(NONE, gpr_ref(gpr_ref(refs)),
                                 grpc_timer_init(expired), hsState, "mgr")
  /\ UNCHANGED <<count, mu, hsErr, hsShut, caller, aborted, termRan,
                 nShutdown, lateShutdown, shutAt, uaf, crashed, timerShut, timerUnrefs,
                 reuse>>

\* A running handshaker finishes its work and schedules the completion closure
\* it was given, with error e, leaving endpoint ep in the args.  One that was
\* shut down while running reports an error.
HandshakerDone(i, e, ep) ==
  /\ ~crashed
  /\ hsState[i] \in {"running", "aborting"}
  /\ hsState[i] = "aborting" => e # NONE
  /\ hsState' = [hsState EXCEPT ![i] = "pending"]
  /\ hsErr' = [hsErr EXCEPT ![i] = e]
  /\ argsEndpoint' = ep
  /\ UNCHANGED <<count, index, refs, mu, hsShut, started, timer, firedEarly,
                 caller, called, aborted, termSched, termErr, termRan,
                 userData, freed, destroyed, nShutdown, lateShutdown, shutAt,
                 uaf, crashed, timerShut, timerUnrefs, reuse>>

\* call_next_handshaker, from the lock to the call's return: the completion
\* closure of handshaker i runs.
call_next_handshaker(i) ==
  /\ ~crashed /\ mu = "free"
  /\ hsState[i] = "pending"
  /\ userData = "mgr"
  /\ mu' = "chain"
  /\ call_next_handshaker_locked(hsErr[i], refs, timer,
                                 [hsState EXCEPT ![i] = "done"], userData)
  /\ UNCHANGED <<count, hsErr, hsShut, firedEarly, caller, called, aborted,
                 termRan, nShutdown, lateShutdown, shutAt, uaf, crashed, argsEndpoint, timerShut,
                 timerUnrefs, reuse>>

\* call_next_handshaker, the gpr_mu_unlock at its end.  On a manager that was
\* freed meanwhile this touches freed memory: the process goes on or crashes.
call_next_handshaker_unlock ==
  /\ ~crashed /\ mu = "chain"
  /\ mu' = "free"
  /\ IF freed > 0
       THEN /\ uaf' = uaf \cup {"unlock"}
            /\ crashed' \in BOOLEAN
       ELSE UNCHANGED <<uaf, crashed>>
  /\ UNCHANGED <<count, index, refs, hsState, hsErr, hsShut, started, timer,
                 firedEarly, caller, called, aborted, termSched, termErr,
                 termRan, userData, freed, destroyed, nShutdown, lateShutdown,
                 shutAt, argsEndpoint, timerShut,
                 timerUnrefs, reuse>>

\* The armed timer reaches its deadline: on_timeout is scheduled with no error.
TimerFire ==
  /\ ~crashed /\ timer = "armed"
  /\ timer' = "fired"
  /\ firedEarly' = TRUE
  /\ UNCHANGED <<count, index, refs, mu, hsState, hsErr, hsShut, started,
                 caller, called, aborted, termSched, termErr, termRan,
                 userData, freed, destroyed, nShutdown, lateShutdown, shutAt,
                 uaf, crashed, argsEndpoint, timerShut,
                 timerUnrefs, reuse>>

\* on_timeout that shuts the manager down without looking at its error.
on_timeout_shutdown_no_error_test ==
  /\ ~crashed /\ mu = "free"
  /\ timer \in {"fired", "cancelled"}
  /\ timer' = "unref"
  /\ timerShut' = timerShut + 1
  /\ ShutdownAll("timer")
  /\ UNCHANGED <<count, index, refs, mu, hsErr, started, firedEarly, caller,
                 called, termSched, termErr, termRan, userData, freed,
                 destroyed, nShutdown, shutAt, uaf, crashed, argsEndpoint,
                 timerUnrefs, reuse>>

\* on_timeout with no error (the timer fired): the shutdown of the manager.
on_timeout_shutdown ==
  /\ ~crashed /\ mu = "free"
  /\ timer = "fired"
  /\ TimerError(timer) = NONE
  /\ timer' = "unref"
  /\ timerShut' = timerShut + 1
  /\ ShutdownAll("timer")
  /\ UNCHANGED <<count, index, refs, mu, hsErr, started, firedEarly, caller,
                 called, termSched, termErr, termRan, userData, freed,
                 destroyed, nShutdown, shutAt, uaf, crashed, argsEndpoint, timerUnrefs,
                 reuse>>

\* on_timeout that releases the timer's reference only after a shutdown: a
\* cancelled timer's callback returns without the unref.
on_timeout_unref_fired_only ==
  /\ ~crashed
  /\ timer = "unref"
  /\ timer' = "done"
  /\ timerUnrefs' = timerUnrefs + 1
  /\ grpc_handshake_manager_unref(refs)
  /\ UNCHANGED <<count, index, mu, hsState, hsErr, hsShut, started,
                 firedEarly, caller, called, aborted, termSched, termErr,
                 termRan, userData, nShutdown, lateShutdown, shutAt, uaf,
                 crashed, argsEndpoint, timerShut, reuse>>

\* on_timeout, its last line: the timer's reference is released.  A cancelled
\* timer comes here directly.
on_timeout_unref ==
  /\ ~crashed
  /\ \/ timer = "unref"
     \/ timer = "cancelled" /\ TimerError(timer) # NONE
  /\ timer' = "done"
  /\ timerUnrefs' = timerUnrefs + 1
  /\ grpc_handshake_manager_unref(refs)
  /\ UNCHANGED <<count, index, mu, hsState, hsErr, hsShut, started,
                 firedEarly, caller, called, aborted, termSched, termErr,
                 termRan, userData, nShutdown, lateShutdown, shutAt, uaf,
                 crashed, argsEndpoint, timerShut, reuse>>

\* The scheduled on_handshake_done closure runs.  The closure is a field of the
\* manager: on a freed manager this reads freed memory.
on_handshake_done ==
  /\ ~crashed
  /\ termRan < termSched
  /\ IF freed > 0
       THEN /\ uaf' = uaf \cup {"terminal"}
            /\ \/ crashed' = TRUE /\ termRan' = termRan
               \/ crashed' = FALSE /\ termRan' = termRan + 1
       ELSE /\ termRan' = termRan + 1
            /\ UNCHANGED <<uaf, crashed>>
  /\ UNCHANGED <<count, index, refs, mu, hsState, hsErr, hsShut, started,
                 timer, firedEarly, caller, called, aborted, termSched,
                 termErr, userData, freed, destroyed, nShutdown, lateShutdown,
                 shutAt, argsEndpoint, timerShut,
                 timerUnrefs, reuse>>

Next ==
  \/ grpc_handshake_manager_add
  \/ grpc_handshake_manager_destroy
  \/ grpc_handshake_manager_shutdown
  \/ \E expired \in BOOLEAN : grpc_handshake_manager_do_handshake(expired)
  \/ \E i \in Slots, e \in Errors \cup {NONE}, ep \in Endpoints : HandshakerDone(i, e, ep)
  \/ \E i \in Slots : call_next_handshaker(i)
  \/ call_next_handshaker_unlock
  \/ TimerFire
  \/ on_timeout_shutdown
  \/ on_timeout_unref
  \/ on_handshake_done

Spec == Init /\ [][Next]_vars

\* ------------------------------------------------------------ derived state
\* Handshakers started and not yet through the advance step.
InFlight == {i \in Slots : hsState[i] \in {"running", "aborting", "pending"}}

\* The chain has ended: do_handshake was called and nothing is in flight.
ChainEnded == called /\ InFlight = {}

\* <<0, 1, ..., n-1>>
UpTo(n) == [k \in 1 .. n |-> k - 1]

\* Positions that were started.
Started == {started[k] : k \in 1 .. Len(started)}

\* ------------------------------------------------------------------ claims
\* C1: for one do_handshake, under every interleaving of completions, timer
\* fire or cancel, shutdown() and destroy(), on_handshake_done is scheduled
\* exactly once: never twice, and never zero times once the chain has ended.
C1_TerminalExactlyOnce ==
  /\ termSched <= 1
  /\ ChainEnded => termSched = 1

\* C1 witness: a chain of two handshakers ended after the timer fired, the
\* caller shut down and destroyed the manager, and the callback was scheduled.
C1_Witness ==
  /\ termSched = 1 /\ Len(started) = 2 /\ nShutdown = 1 /\ firedEarly
  /\ timer = "done" /\ caller = "released"

\* C2: if all N registered handshakers complete with no error, the terminal
\* callback is scheduled with no error, and every handshaker 0..N-1 has been
\* started exactly once, in registration order.
C2_AllSucceed ==
  (called /\ \A i \in Slots : i < count => hsState[i] = "done" /\ hsErr[i] = NONE)
    => /\ termSched = 1
       /\ termErr = NONE
       /\ started = UpTo(count)

\* C2 witness: two registered handshakers, both completed with no error.
C2_Witness ==
  /\ count = 2 /\ called
  /\ \A i \in Slots : i < count => hsState[i] = "done" /\ hsErr[i] = NONE
  /\ termSched = 1

\* C3: if handshaker k is the first to complete with an error, no handshaker
\* at a later position is ever started, and the terminal callback gets exactly
\* the error k reported.
C3_ErrorShortCircuits ==
  \A k \in Slots :
    (hsState[k] \in {"pending", "done"} /\ hsErr[k] # NONE)
      => /\ \A j \in Slots : j > k => hsState[j] = "idle"
         /\ Len(started) = k + 1
         /\ hsState[k] = "done" => termSched = 1 /\ termErr = hsErr[k]

\* C3 witness: handshaker 0 of two failed with E2 and the chain ended with E2.
C3_Witness ==
  /\ count = 2 /\ hsState[0] = "done" /\ hsErr[0] = "E2"
  /\ termSched = 1 /\ termErr = "E2" /\ hsState[1] = "idle"

\* C4: a shutdown() made after do_handshake started the first handshaker and
\* before any completion went through the advance step makes the chain end
\* with an error, and no handshaker after the active one is ever started.
C4_ShutdownStopsChain ==
  shutAt = 1
    => /\ Len(started) = 1
       /\ ChainEnded => termSched = 1 /\ termErr # NONE

\* C5: once the callback is scheduled, further shutdown() calls and timer
\* events never schedule it again, the reference count never goes below zero,
\* and the manager is freed exactly once, exactly when the count is zero.
C5_LateEventsHarmless ==
  termSched >= 1
    => /\ termSched = 1
       /\ refs >= 0
       /\ freed <= 1
       /\ freed = 1 <=> refs = 0

\* C5 witness: after the callback was scheduled both the caller and the fired
\* timer broadcast shutdown, and the manager has been freed.
C5_Witness ==
  /\ termSched = 1 /\ lateShutdown = 2 /\ nShutdown = 1
  /\ timer = "done" /\ freed = 1 /\ Len(started) >= 1

\* The chain ran every handshaker it started to a successful completion.
NaturalCompletion ==
  /\ termErr = NONE
  /\ \A i \in Started : hsState[i] = "done" /\ hsErr[i] = NONE

\* The timer's shutdown caught a running handshaker and the chain ended with
\* that handshaker's error.
TimerShutdownTookEffect == aborted = "timer" /\ termErr # NONE

\* C6: when the timer fires in a race with the completion of the chain (no
\* stage failing by itself, no shutdown by the caller catching a handshaker),
\* exactly one of timer-triggered shutdown and natural completion takes effect
\* and the callback is scheduled exactly once.
C6_FireRacesCompletion ==
  (/\ firedEarly /\ termSched >= 1
   /\ aborted # "caller"
   /\ \A i \in Slots : hsErr[i] # NONE => aborted = "timer")
    => /\ termSched = 1
       /\ NaturalCompletion # TimerShutdownTookEffect

\* C6 witness: the timer fired, the last handshaker's successful completion
\* went through first, and the timer's shutdown came after the chain's end.
C6_Witness ==
  /\ firedEarly /\ termSched = 1 /\ termErr = NONE /\ Len(started) = count
  /\ count >= 1 /\ nShutdown = 0 /\ lateShutdown = 1 /\ timer = "done"

\* Live co-owners of the manager: the caller until destroy(), the timer until
\* on_timeout released its reference, the chain until the terminal branch.
CallerOwns == IF caller = "holds" THEN 1 ELSE 0
TimerOwns == IF timer \in {"armed", "fired", "cancelled", "unref"} THEN 1 ELSE 0
ChainOwns == IF called /\ termSched = 0 THEN 1 ELSE 0
Owners == CallerOwns + TimerOwns + ChainOwns

\* C7: the count is the number of live co-owners (so within 0..3, and 1 at
\* creation); the manager is freed exactly once, only when all have released,
\* and then every registered handshaker is destroyed once in registration
\* order; no handshaker is destroyed while the manager is alive.
C7_RefcountIsOwners ==
  /\ refs = Owners
  /\ refs \in 0 .. 3
  /\ freed = (IF Owners = 0 THEN 1 ELSE 0)
  /\ destroyed = (IF freed = 1 THEN UpTo(count) ELSE <<>>)
  /\ (~called /\ caller = "holds") => refs = 1

\* C7 witness: a handshake of two handshakers ended, all three owners
\* released, and both handshakers were destroyed.
C7_Witness ==
  /\ freed = 1 /\ destroyed = <<0, 1>> /\ termSched = 1 /\ Len(started) = 2
  /\ timer = "done"

\* C8: at most one handshaker is in flight; handshaker i+1 is started only
\* after handshaker i's completion went through the advance step; handshakers
\* are started in increasing index order, none skipped.
C8_OneAtATime ==
  /\ Cardinality(InFlight) <= 1
  /\ started = UpTo(Len(started))
  /\ Len(started) = index
  /\ \A k \in 1 .. (Len(started) - 1) : hsState[started[k]] = "done"

\* C8 witness: the second handshaker runs, the first is through.
C8_Witness ==
  /\ started = <<0, 1>> /\ hsState[0] = "done" /\ hsState[1] = "running"

\* C9: when the terminal callback is scheduled or runs, every started
\* handshaker has invoked its completion closure or has been shut down.
C9_NoneLeftInFlight ==
  termSched >= 1
    => \A i \in Started : hsState[i] \in {"pending", "done"} \/ hsShut[i] > 0

\* C9 witness: the callback ran after two handshakers, neither ever shut down.
C9_Witness ==
  /\ termRan = 1 /\ Len(started) = 2
  /\ \A i \in Slots : hsShut[i] = 0

\* C10: if the timer fires before the chain reached its terminal branch (an
\* already expired deadline included), the terminal callback gets an error.
C10_FiredTimerEndsWithError ==
  (firedEarly /\ termSched >= 1) => termErr # NONE

\* C11: with no handshaker registered, the do_handshake step itself arms the
\* timer and cancels it (a timer that was already expired has fired instead),
\* schedules the terminal callback with no error, starts no handshaker, leaves
\* the passed endpoint in the args, and releases the chain's reference, so
\* that the caller's and the timer callback's references remain.
C11_EmptyChain ==
  [][(~called /\ called' /\ count = 0)
       => /\ timer' = (IF firedEarly' THEN "fired" ELSE "cancelled")
          /\ termSched' = 1 /\ termErr' = NONE
          /\ started' = <<>> /\ index' = 0
          /\ \A i \in Slots : hsState'[i] = "idle"
          /\ argsEndpoint' = "caller"
          /\ refs' = 2 /\ caller' = "holds" /\ timerUnrefs' = 0]_vars

\* C11 witness: right after do_handshake on an empty manager, the timer
\* cancelled and its callback not yet run, the terminal callback scheduled.
C11_Witness ==
  /\ called /\ count = 0 /\ termSched = 1 /\ termRan = 0 /\ termErr = NONE
  /\ timer = "cancelled" /\ refs = 2 /\ started = <<>> /\ argsEndpoint = "caller"

\* C12: in every reachable state 0 <= index <= count (the GPR_ASSERT of the
\* advance step never fails); no step decreases index; index grows by exactly
\* one per handshaker started and is unchanged by the terminal branch.
C12_CursorBounded ==
  /\ [](0 <= index /\ index <= count /\ index = Len(started))
  /\ [][/\ index' >= index
        /\ index' - index = Len(started') - Len(started)
        /\ index' - index \in {0, 1}
        /\ termSched' # termSched => index' = index]_vars

\* C12 witness: the cursor reached the end of a list of two and the terminal
\* branch was taken, after a shutdown and a fired timer.
C12_Witness ==
  /\ index = 2 /\ count = 2 /\ termSched = 1 /\ nShutdown = 1 /\ timerShut = 1

\* The deadline timer's own state: "unref" is on_timeout's position after its
\* shutdown, the timer itself having fired.
TimerPhase(t) == IF t = "unref" THEN "fired" ELSE t

\* C13: a manager shutdown (the caller's or on_timeout's) calls shutdown once
\* on every registered handshaker, whatever its state, and on no other; it
\* leaves the cursor, the handshaker list, the reference count, the timer and
\* the scheduling of the terminal callback as they were.
C13_ShutdownFrame ==
  [][(nShutdown' # nShutdown \/ timerShut' # timerShut)
       => /\ \A i \in Slots : hsShut'[i] = (IF i < count THEN hsShut[i] + 1 ELSE hsShut[i])
          /\ TimerPhase(timer') = TimerPhase(timer)
          /\ UNCHANGED <<index, count, started, refs, freed, destroyed,
                         termSched, termErr, termRan, userData, argsEndpoint,
                         hsErr, mu, caller, called>>]_vars

\* C13 witness: one shutdown reached a handshaker that had finished and a
\* running one.
C13_Witness ==
  /\ count = 2 /\ hsState[0] = "done" /\ hsState[1] = "aborting"
  /\ hsShut[0] = 1 /\ hsShut[1] = 1 /\ termSched = 0

\* C14: on_timeout runs once per armed timer and releases the timer's
\* reference exactly once, fired or cancelled; it shuts the manager down if
\* and only if the timer fired.
C14_TimeoutOnce ==
  /\ timerUnrefs = (IF timer = "done" THEN 1 ELSE 0)
  /\ timerShut = (IF timer = "unref" \/ (timer = "done" /\ firedEarly) THEN 1 ELSE 0)
  /\ timer \in {"cancelled", "done"} /\ ~firedEarly => timerShut = 0
  /\ timer \in {"fired", "unref"} => firedEarly

\* C14 witness: both outcomes are reached; this one is the cancelled timer
\* whose callback released its reference without a shutdown.
C14_Witness ==
  /\ timer = "done" /\ ~firedEarly /\ timerUnrefs = 1 /\ timerShut = 0
  /\ Len(started) >= 1

\* C14 second case: the fired timer, one shutdown and one release.
C14_WitnessFired ==
  /\ timer = "done" /\ firedEarly /\ timerUnrefs = 1 /\ timerShut = 1

\* C15: from do_handshake until the terminal branch args->user_data is the
\* manager, so each run of the advance closure finds the manager; once the
\* terminal callback is scheduled it is the caller's user_data, never the
\* manager.
C15_UserDataSlot ==
  /\ ~called => userData = "unset"
  /\ (called /\ termSched = 0) => userData = "mgr"
  /\ InFlight # {} => userData = "mgr"
  /\ termSched >= 1 => userData = "caller"

\* C15 witness: after two handshakers the callback is scheduled and the slot
\* holds the caller's user_data.
C15_Witness ==
  /\ termSched = 1 /\ userData = "caller" /\ Len(started) = 2

\* Number of holders of the args record: each handshaker that was started and
\* whose completion closure has not yet been through the advance step, and the
\* terminal callback once the args were handed to it.
ArgsHolders == Cardinality(InFlight) + (IF termSched >= 1 THEN 1 ELSE 0)

\* C16: from do_handshake on the args record has exactly one holder: the one
\* handshaker in flight, or, after the terminal branch, the terminal callback;
\* never two handshakers, never none.
C16_ArgsOneHolder ==
  /\ called => ArgsHolders = 1
  /\ ~called => ArgsHolders = 0

\* C16 witness: the args are with the second handshaker, which has scheduled
\* its completion closure; the first is through.
C16_Witness ==
  /\ called /\ termSched = 0 /\ hsState[0] = "done" /\ hsState[1] = "pending"

\* ------------------------------------------------------------ second call
\* grpc_handshake_manager_do_handshake called again on the same manager.  Its
\* GPR_ASSERT(mgr->index == 0) aborts the process when the cursor has moved;
\* otherwise the whole function runs once more.  Re-initialising a timer whose
\* callback is still pending is undefined: the process crashes, or goes on
\* with the timer overwritten.
grpc_handshake_manager_do_handshake_again(expired) ==
  /\ ~crashed /\ caller = "holds" /\ mu = "free"
  /\ called /\ reuse = "none"
  /\ IF index # 0
       THEN /\ reuse' = "failed"
            /\ crashed' = TRUE
            /\ UNCHANGED <<index, refs, hsState, started, timer, firedEarly,
                           termSched, termErr, userData, freed, destroyed,
                           argsEndpoint, uaf>>
       ELSE /\ reuse' = "passed"
            /\ firedEarly' = (firedEarly \/ expired)
            /\ argsEndpoint' = "caller"
            /\ call_next_handshaker_locked(NONE, gpr_ref(gpr_ref(refs)),
                                           grpc_timer_init(expired), hsState, "mgr")
            /\ IF timer \in {"fired", "cancelled", "unref"}
                 THEN /\ uaf' = uaf \cup {"timer"}
                      /\ crashed' \in BOOLEAN
                 ELSE UNCHANGED <<uaf, crashed>>
  /\ UNCHANGED <<count, mu, hsErr, hsShut, caller, called, aborted, termRan,
                 nShutdown, lateShutdown, shutAt, timerShut, timerUnrefs>>

NextReuse ==
  \/ Next
  \/ \E expired \in BOOLEAN : grpc_handshake_manager_do_handshake_again(expired)

\* The manager with callers that may call do_handshake a second time.
SpecReuse == Init /\ [][NextReuse]_vars

\* C17: do_handshake's check of the cursor passes on the first call and fails
\* on every later call on the same manager, whatever the handshaker count,
\* zero included.
C17_SecondCallFails ==
  /\ ~called => index = 0
  /\ reuse # "passed"

\* C18: the manager is never destroyed while its mutex is held: the release
\* of the chain's reference inside the locked advance step (entered from
\* call_next_handshaker or from do_handshake) never frees the manager.
C18_NotFreedUnderLock ==
  [][((mu = "free" /\ mu' = "chain") \/ (~called /\ called'))
       => freed' = freed]_vars

\* C19: the manager still exists (its reference count is above zero) when the
\* scheduled on_handshake_done closure, a field of the manager, runs.
C19_AliveAtCallback ==
  [][(termRan' # termRan \/ "terminal" \in uaf')
       => (refs > 0 /\ freed = 0)]_vars

\* ---------------------------------------------------------------- fairness
\* Every started handshaker eventually completes, scheduled closures (the
\* advance closure, on_timeout) eventually run, a thread holding the mutex
\* eventually unlocks it, and the caller eventually calls destroy().
Fairness ==
  /\ WF_vars(\E i \in Slots, e \in Errors \cup {NONE}, ep \in Endpoints : HandshakerDone(i, e, ep))
  /\ WF_vars(\E i \in Slots : call_next_handshaker(i))
  /\ WF_vars(call_next_handshaker_unlock)
  /\ WF_vars(on_timeout_shutdown)
  /\ WF_vars(on_timeout_unref)
  /\ WF_vars(grpc_handshake_manager_destroy)

FairSpec == Spec /\ Fairness

\* The manager and all its handshakers are destroyed.
AllReleased == refs = 0 /\ freed = 1 /\ destroyed = UpTo(count)

\* C20: no leak: once do_handshake was called, with every started handshaker
\* completing and the caller calling destroy(), the reference count reaches
\* zero and the manager and all its handshakers are destroyed, however the
\* chain ended.
C20_NoLeak == called ~> AllReleased

\* C20 witness: all released after a chain that a fired deadline ended with an
\* error.
C20_Witness ==
  /\ AllReleased /\ called /\ firedEarly /\ termErr # NONE /\ aborted = "timer"
  /\ count = 2

====
